---------------------------- MODULE Spec2Model ----------------------------
(***************************************************************************)
(* Model of the document retrieval engine of tools/vector_rag_tool.py:     *)
(* the chunker (_split_document), the build at construction                *)
(* (_initialize_vector_components, _load_documents_if_needed,              *)
(* _load_all_documents), the query path (search), the fallback matcher     *)
(* (_fallback_search) and the domain adapters (PolicyRAGTool, DocRAGTool,  *)
(* DefinitionRAGTool, SalesRAGTool) as the agents use them.                *)
(*                                                                         *)
(* Python strings are modelled as run-length encoded character sequences   *)
(* (a sequence of runs [c, n]: character c repeated n times, n >= 1, no    *)
(* two adjacent runs with the same character), so that texts longer than   *)
(* max_chunk_size are small values.  Every string operation below is       *)
(* defined on that representation by what the Python operation does.       *)
(***************************************************************************)
EXTENDS Integers, Sequences, FiniteSets, TLC

(***************************************************************************)
(* Python str                                                              *)
(***************************************************************************)
Run(c, n) == [c |-> c, n |-> n]

\* The empty string "".
Empty == <<>>

\* Python's None where a string is expected (Optional[str]); it is no string.
None == <<[c |-> "None", n |-> 0]>>

\* The sum of the lengths of the runs i..j of s.
RECURSIVE RunSum(_, _, _)
RunSum(s, i, j) == IF i > j THEN 0 ELSE s[i].n + RunSum(s, i + 1, j)

\* Merge adjacent runs of one character: the canonical form of a string.
Norm(s) ==
    LET starts == SelectSeq([i \in 1..Len(s) |-> i],
                            LAMBDA i : i = 1 \/ s[i].c # s[i - 1].c)
        last(k) == IF k = Len(starts) THEN Len(s) ELSE starts[k + 1] - 1
    IN  [k \in 1..Len(starts) |->
            Run(s[starts[k]].c, RunSum(s, starts[k], last(k)))]

\* A string literal, written as the sequence of its characters.
Lit(chars) == Norm([i \in 1..Len(chars) |-> Run(chars[i], 1)])

\* s + t
Concat(s, t) == Norm(s \o t)

\* len(s)
RECURSIVE StrLen(_)
StrLen(s) == IF s = <<>> THEN 0 ELSE s[1].n + StrLen(Tail(s))

\* s[:k]
RECURSIVE Prefix(_, _)
Prefix(s, k) ==
    IF s = <<>> \/ k <= 0 THEN <<>>
    ELSE IF s[1].n >= k THEN <<Run(s[1].c, k)>>
    ELSE <<s[1]>> \o Prefix(Tail(s), k - s[1].n)

\* str.isspace() of one character (the whitespace of the model's alphabet).
IsSpace(c) == c \in {" ", "\n", "\t"}

\* s.strip()
RECURSIVE LStrip(_)
LStrip(s) == IF s # <<>> /\ IsSpace(s[1].c) THEN LStrip(Tail(s)) ELSE s

RECURSIVE RStrip(_)
RStrip(s) ==
    IF s # <<>> /\ IsSpace(s[Len(s)].c) THEN RStrip(SubSeq(s, 1, Len(s) - 1)) ELSE s

Strip(s) == RStrip(LStrip(s))

\* str.lower() on ASCII letters.
UpperAlpha == <<"A","B","C","D","E","F","G","H","I","J","K","L","M",
                "N","O","P","Q","R","S","T","U","V","W","X","Y","Z">>
LowerAlpha == <<"a","b","c","d","e","f","g","h","i","j","k","l","m",
                "n","o","p","q","r","s","t","u","v","w","x","y","z">>

LowerChar(c) ==
    IF \E i \in 1..Len(UpperAlpha) : UpperAlpha[i] = c
    THEN LowerAlpha[CHOOSE i \in 1..Len(UpperAlpha) : UpperAlpha[i] = c]
    ELSE c

Lower(s) == Norm([i \in 1..Len(s) |-> Run(LowerChar(s[i].c), s[i].n)])

\* n copies of the empty string.
Empties(n) == [i \in 1..n |-> Empty]

\* s.split(sep) for a one-character separator: every occurrence separates.
\* SplitCharFrom(s, sep, cur) is the list of pieces of cur + s.
RECURSIVE SplitCharFrom(_, _, _)
SplitCharFrom(s, sep, cur) ==
    IF s = <<>> THEN <<cur>>
    ELSE IF s[1].c = sep
         THEN <<cur>> \o Empties(s[1].n - 1) \o SplitCharFrom(Tail(s), sep, Empty)
         ELSE SplitCharFrom(Tail(s), sep, cur \o <<s[1]>>)

SplitChar(s, sep) == SplitCharFrom(s, sep, Empty)

\* s.split('\n\n'): occurrences are matched left to right without overlap, so
\* a run of n newlines holds n \div 2 separators and leaves n % 2 newlines at
\* the head of the next piece.
RECURSIVE SplitParagraphsFrom(_, _)
SplitParagraphsFrom(s, cur) ==
    LET breaks == {i \in 1..Len(s) : s[i].c = "\n" /\ s[i].n >= 2}
    IN  IF breaks = {} THEN <<Concat(cur, s)>>
        ELSE LET i == CHOOSE b \in breaks : \A j \in breaks : b <= j
             IN  <<Concat(cur, SubSeq(s, 1, i - 1))>>
                 \o Empties((s[i].n \div 2) - 1)
                 \o SplitParagraphsFrom(SubSeq(s, i + 1, Len(s)),
                        IF s[i].n % 2 = 1 THEN <<Run("\n", 1)>> ELSE Empty)

SplitParagraphs(s) == SplitParagraphsFrom(s, Empty)

\* s.split(): the maximal runs of non-whitespace characters, in order.
RECURSIVE SplitWordsFrom(_, _)
SplitWordsFrom(s, cur) ==
    IF s = <<>> THEN (IF cur = Empty THEN <<>> ELSE <<cur>>)
    ELSE IF IsSpace(s[1].c)
         THEN (IF cur = Empty THEN <<>> ELSE <<cur>>) \o SplitWordsFrom(Tail(s), Empty)
         ELSE SplitWordsFrom(Tail(s), cur \o <<s[1]>>)

SplitWords(s) == SplitWordsFrom(s, Empty)

\* set(seq)
SetOf(seq) == {seq[i] : i \in 1..Len(seq)}

\* Truth value of an Optional[str]: None and "" are false.
Truthy(s) == s # None /\ s # Empty


(***************************************************************************)
(* Chunker: VectorRAGTool._split_document                                  *)
(***************************************************************************)
max_chunk_size == 500

ParagraphBreak == <<Run("\n", 2)>>

\* A loop that starts the next chunk empty when it flushes: the paragraph
\* that did not fit is lost.
RECURSIVE SplitLoopDropping(_, _, _)
SplitLoopDropping(ps, chunks, current_chunk) ==
    IF ps = <<>> THEN [chunks |-> chunks, current_chunk |-> current_chunk]
    ELSE LET paragraph == Strip(ps[1])
         IN  IF paragraph = Empty
             THEN SplitLoopDropping(Tail(ps), chunks, current_chunk)
             ELSE IF StrLen(current_chunk) + StrLen(paragraph) > max_chunk_size
                     /\ current_chunk # Empty
             THEN SplitLoopDropping(Tail(ps), Append(chunks, Strip(current_chunk)), Empty)
             ELSE IF current_chunk # Empty
             THEN SplitLoopDropping(Tail(ps), chunks,
                            Concat(Concat(current_chunk, ParagraphBreak), paragraph))
             ELSE SplitLoopDropping(Tail(ps), chunks, paragraph)

\* The loop over the paragraphs: chunks and current_chunk after the
\* paragraphs ps, starting from (chunks, current_chunk).
RECURSIVE SplitLoop(_, _, _)
SplitLoop(ps, chunks, current_chunk) ==
    IF ps = <<>> THEN [chunks |-> chunks, current_chunk |-> current_chunk]
    ELSE LET paragraph == Strip(ps[1])
         IN  IF paragraph = Empty
             THEN SplitLoop(Tail(ps), chunks, current_chunk)
             ELSE IF StrLen(current_chunk) + StrLen(paragraph) > max_chunk_size
                     /\ current_chunk # Empty
             THEN SplitLoop(Tail(ps), Append(chunks, Strip(current_chunk)), paragraph)
             ELSE IF current_chunk # Empty
             THEN SplitLoop(Tail(ps), chunks,
                            Concat(Concat(current_chunk, ParagraphBreak), paragraph))
             ELSE SplitLoop(Tail(ps), chunks, paragraph)

\* A final flush without its guard: it appends current_chunk even when blank.
FlushLastUnguarded(st) == Append(st.chunks, Strip(st.current_chunk))

\* The chunks after the final flush of current_chunk.
FlushLast(st) ==
    IF Strip(st.current_chunk) # Empty
    THEN Append(st.chunks, Strip(st.current_chunk))
    ELSE st.chunks

_split_document(text) ==
    LET chunks == FlushLast(SplitLoop(SplitParagraphs(text), <<>>, Empty))
    IN  IF chunks = <<>> /\ Strip(text) # Empty
        THEN <<Prefix(text, max_chunk_size)>>
        ELSE chunks


(***************************************************************************)
(* The document source: the rows of the documents table and the files      *)
(***************************************************************************)
ModSales     == Lit(<<"s","a","l","e","s">>)
ModInventory == Lit(<<"i","n","v","e","n","t","o","r","y">>)

\* The content of the one document of the refund scenario.
RefundText ==
    Lit(<<"R","e","f","u","n","d","s"," ","a","r","e"," ","p","r","o","c",
          "e","s","s","e","d"," ","w","i","t","h","i","n"," ","1","4"," ",
          "d","a","y","s"," ","o","f"," ","p","u","r","c","h","a","s","e",
          ","," ","m","i","n","u","s"," ","a"," ","5","%"," ","r","e","s",
          "t","o","c","k","i","n","g"," ","f","e","e",".">>)

\* A long document: ParasPerDoc paragraphs of 300 times the character c.
\* No two of them fit into one chunk.
ParasPerDoc == 30

BigText(c) ==
    [i \in 1..(2 * ParasPerDoc - 1) |->
        IF i % 2 = 1 THEN Run(c, 300) ELSE Run("\n", 2)]

BigFiles == {"b1", "b2", "b3", "b4", "b5", "b6", "b7"}

\* The files on disk: path -> content.  A path outside the domain is no file.
Files ==
    [p \in {"p0", "p1", "p2", "p3", "blank"} \cup BigFiles |->
        CASE p = "p0" -> RefundText
          [] p = "blank" -> <<Run(" ", 2), Run("\n", 1)>>
          [] p = "b1" -> BigText("a")
          [] p = "b2" -> BigText("b")
          [] p = "b3" -> BigText("c")
          [] p = "b4" -> BigText("d")
          [] p = "b5" -> BigText("e")
          [] p = "b6" -> BigText("f")
          [] p = "b7" -> BigText("g")
          [] p = "p1" -> Lit(<<"R","e","f","u","n","d"," ","f","e","e","\n","\n","s","h","i","p">>)
          [] p = "p2" -> <<Run("a", 300), Run("\n", 2)>> \o Lit(<<"r","e","f","u","n","d"," ">>)
                         \o <<Run("b", 300)>>
          [] p = "p3" -> Lit(<<"f","e","e","\n">>)]

\* os.path.isfile(path)
isfile(path) == path \in DOMAIN Files

Row(id, module, path, tags) == [id |-> id, module |-> module, path |-> path, tags |-> tags]

AllRows ==
    << Row(1, ModSales, "p1", Lit(<<"P","o","l","i","c","y",","," ","h","r">>)),
       Row(2, ModInventory, "p2", Lit(<<"p","o","l","i","c","y">>)),
       Row(3, ModSales, "p3", None),
       Row(4, ModInventory, "gone", Lit(<<"h","r">>)) >>

\* The catalogues a run starts from: the empty corpus and the four documents.
Catalogues == {<<>>, AllRows}

\* A catalogue whose chunks fill more than two batches, with a row without
\* a path, a row whose path is no file and a row whose file is blank.
BatchRows ==
    << Row(1, ModSales, "b1", None),
       Row(2, ModSales, "", None),
       Row(3, ModInventory, "b2", None),
       Row(4, ModInventory, "gone", None),
       Row(5, ModSales, "b3", None),
       Row(6, ModSales, "blank", None),
       Row(7, ModInventory, "b4", None),
       Row(8, ModSales, "b5", None),
       Row(9, ModInventory, "b6", None),
       Row(10, ModSales, "b7", None) >>

\* The corpus of the refund scenario: one document tagged policy.
RefundRows == << Row(1, ModSales, "p0", Lit(<<"p","o","l","i","c","y">>)) >>

ScenarioCatalogues == {<<>>, RefundRows}

(***************************************************************************)
(* Tag parsing: {t.strip().lower() for t in tags.split(",") if t.strip()}  *)
(***************************************************************************)
TagSet(tags) ==
    LET parts == SplitChar(tags, ",")
    IN  {Lower(Strip(parts[i])) : i \in {j \in 1..Len(parts) : Strip(parts[j]) # Empty}}

\* x or ""
OrEmpty(x) == IF Truthy(x) THEN x ELSE Empty

\* A tag test that is satisfied by one requested tag.
HasAnyTag(tags, stored) == TagSet(tags) \cap TagSet(OrEmpty(stored)) # {}

\* requested_tags.issubset(doc_tags)
HasAllTags(tags, stored) == TagSet(tags) \subseteq TagSet(OrEmpty(stored))

(***************************************************************************)
(* Result shaping                                                          *)
(***************************************************************************)
excerpt_len == 200

Ellipsis == <<Run(".", 3)>>

\* An excerpt that is the whole text.
ExcerptWhole(doc) == doc

\* doc[:200] + "..." if len(doc) > 200 else doc
Excerpt(doc) ==
    IF StrLen(doc) > excerpt_len THEN Concat(Prefix(doc, excerpt_len), Ellipsis) ELSE doc

\* A score is the fraction num/den, den > 0.
Score(num, den) == [num |-> num, den |-> den]

\* a > b on scores
ScoreGreater(a, b) == a.num * b.den > b.num * a.den

Result(id, module, tags, score, excerpt, path) ==
    [id |-> id, module |-> module, tags |-> tags, score |-> score,
     excerpt |-> excerpt, path |-> path]

(***************************************************************************)
(* Fallback matcher: VectorRAGTool._fallback_search                        *)
(*                                                                         *)
(* db_raises: database.query raises; unreadable: the paths whose open/read *)
(* raises during this call.                                                *)
(***************************************************************************)
\* set(text.lower().split())
WordSet(text) == SetOf(SplitWords(Lower(text)))

\* An overlap score with one added to both counts.
OverlapScoreSmoothed(query_words, doc_words) ==
    LET overlap == Cardinality(query_words \cap doc_words)
        total   == Cardinality(query_words \cup doc_words)
    IN  Score(overlap + 1, total + 1)

\* overlap / total if total > 0 else 0
OverlapScore(query_words, doc_words) ==
    LET overlap == Cardinality(query_words \cap doc_words)
        total   == Cardinality(query_words \cup doc_words)
    IN  IF total > 0 THEN Score(overlap, total) ELSE Score(0, 1)

\* One iteration of the loop over the rows: the Result the row contributes,
\* as a list of zero or one element.
FallbackRow(row, query_words, module, tags, unreadable) ==
    IF Truthy(module) /\ row.module # module THEN <<>>
    ELSE IF Truthy(tags) /\ ~HasAllTags(tags, row.tags) THEN <<>>
    ELSE IF row.path # "" /\ isfile(row.path) /\ row.path \in unreadable THEN <<>>
    ELSE LET text == IF row.path # "" /\ isfile(row.path) THEN Files[row.path] ELSE Empty
         IN  IF text = Empty THEN <<>>
             ELSE LET score == OverlapScore(query_words, WordSet(text))
                  IN  IF score.num > 0
                      THEN <<Result(row.id, row.module, row.tags, score,
                                    Excerpt(text), row.path)>>
                      ELSE <<>>

RECURSIVE FallbackRows(_, _, _, _, _)
FallbackRows(rs, query_words, module, tags, unreadable) ==
    IF rs = <<>> THEN <<>>
    ELSE FallbackRow(rs[1], query_words, module, tags, unreadable)
         \o FallbackRows(Tail(rs), query_words, module, tags, unreadable)

\* results.sort(key=score, reverse=True): a stable sort, so r goes behind
\* every element whose score is at least its own.
RECURSIVE InsertByScore(_, _)
InsertByScore(sorted, r) ==
    IF sorted = <<>> THEN <<r>>
    ELSE IF ScoreGreater(r.score, sorted[1].score) THEN <<r>> \o sorted
    ELSE <<sorted[1]>> \o InsertByScore(Tail(sorted), r)

RECURSIVE SortByScoreFrom(_, _)
SortByScoreFrom(rs, sorted) ==
    IF rs = <<>> THEN sorted
    ELSE SortByScoreFrom(Tail(rs), InsertByScore(sorted, rs[1]))

\* A sort that leaves the list in the order of the catalogue.
SortByScoreSkipped(rs) == rs

SortByScore(rs) == SortByScoreFrom(rs, <<>>)

\* seq[:k]
Take(seq, k) ==
    SubSeq(seq, 1, IF k >= 0 THEN (IF k < Len(seq) THEN k ELSE Len(seq))
                   ELSE (IF Len(seq) + k > 0 THEN Len(seq) + k ELSE 0))

\* What a call ends with: an exception (raised) or the returned list.
Raised == [raised |-> TRUE, results |-> <<>>]
Returned(results) == [raised |-> FALSE, results |-> results]

\* A fallback matcher that returns every candidate.
FallbackSearchUncut(rows, query, k, module, tags, db_raises, unreadable) ==
    IF db_raises THEN Raised
    ELSE Returned(SortByScore(FallbackRows(rows, WordSet(query), module, tags, unreadable)))

_fallback_search(rows, query, k, module, tags, db_raises, unreadable) ==
    IF db_raises THEN Raised
    ELSE Returned(Take(SortByScore(
             FallbackRows(rows, WordSet(query), module, tags, unreadable)), k))

(***************************************************************************)
(* Build: VectorRAGTool._load_all_documents                                *)
(***************************************************************************)
batch_size == 100

\* What one chunk contributes to documents, metadatas and ids: an entry of
\* the collection under the key f"{doc_id}_{i}".
Entry(row, i, chunk) ==
    [key  |-> <<row.id, i>>,
     doc  |-> chunk,
     meta |-> [doc_id |-> row.id, module |-> row.module, path |-> row.path,
               tags |-> OrEmpty(row.tags), chunk_index |-> i]]

\* The entries of one row: none when the file is missing, unreadable or blank.
\* enumerate() counts the chunks from 0.
RowEntries(row, unreadable) ==
    IF row.path # "" /\ isfile(row.path) /\ row.path \in unreadable THEN <<>>
    ELSE LET text == IF row.path # "" /\ isfile(row.path) THEN Files[row.path] ELSE Empty
         IN  IF Strip(text) = Empty THEN <<>>
             ELSE LET chunks == _split_document(text)
                  IN  [i \in 1..Len(chunks) |-> Entry(row, i - 1, chunks[i])]

\* A loop over the rows that ends at the first row that contributes no entry.
RECURSIVE AllEntriesStopping(_, _)
AllEntriesStopping(rs, unreadable) ==
    IF rs = <<>> THEN <<>>
    ELSE IF RowEntries(rs[1], unreadable) = <<>> THEN <<>>
    ELSE RowEntries(rs[1], unreadable) \o AllEntriesStopping(Tail(rs), unreadable)

RECURSIVE AllEntries(_, _)
AllEntries(rs, unreadable) ==
    IF rs = <<>> THEN <<>>
    ELSE RowEntries(rs[1], unreadable) \o AllEntries(Tail(rs), unreadable)

\* range(0, len(documents), batch_size): the number of batches.
NumBatches(entries) == (Len(entries) + batch_size - 1) \div batch_size

\* documents[i:i+batch_size] of the b-th batch, b = 1..NumBatches.
Batch(entries, b) ==
    SubSeq(entries, (b - 1) * batch_size + 1,
           IF b * batch_size < Len(entries) THEN b * batch_size ELSE Len(entries))

\* collection.add: an entry under a key the collection already holds is ignored.
CollectionAdd(coll, batch) ==
    LET held == {e.key : e \in coll}
    IN  coll \cup {batch[i] : i \in {j \in 1..Len(batch) : batch[j].key \notin held}}

\* What the loop over the batches did: the collection after it, the number
\* of collection.add calls, the batches whose add raised, and the keys that
\* were passed to collection.add.
Added(coll, adds, failed, submitted) ==
    [coll |-> coll, adds |-> adds, failed |-> failed, submitted |-> submitted]

BatchKeys(batch) == {batch[i].key : i \in 1..Len(batch)}

\* A loop over the batches that ends at the first add that raises.
RECURSIVE AddBatchesAborting(_, _, _, _)
AddBatchesAborting(coll, entries, b, add_fails) ==
    IF b > NumBatches(entries) THEN Added(coll, 0, {}, {})
    ELSE IF b \in add_fails
         THEN Added(coll, 1, {b}, BatchKeys(Batch(entries, b)))
         ELSE LET rest == AddBatchesAborting(CollectionAdd(coll, Batch(entries, b)),
                                             entries, b + 1, add_fails)
              IN  Added(rest.coll, rest.adds + 1, rest.failed,
                        rest.submitted \cup BatchKeys(Batch(entries, b)))

\* The loop over the batches b..NumBatches, the batches in add_fails raising
\* (caught: print and go on).
RECURSIVE AddBatches(_, _, _, _)
AddBatches(coll, entries, b, add_fails) ==
    IF b > NumBatches(entries) THEN Added(coll, 0, {}, {})
    ELSE LET rest == AddBatches(IF b \in add_fails THEN coll
                                ELSE CollectionAdd(coll, Batch(entries, b)),
                                entries, b + 1, add_fails)
         IN  Added(rest.coll, rest.adds + 1,
                   rest.failed \cup (IF b \in add_fails THEN {b} ELSE {}),
                   rest.submitted \cup BatchKeys(Batch(entries, b)))

\* A load that did nothing: the collection as it was.
NoLoad(coll, load) ==
    [raised |-> FALSE, load |-> load, coll |-> coll, adds |-> 0,
     failed |-> {}, submitted |-> {}]

\* _load_all_documents on a tool whose model and collection are set.
\* Result: the exception of database.query (raised), or the collection after
\* the load with the number of collection.add calls, the batches whose add
\* raised, and the keys passed to collection.add.
_load_all_documents(coll, rows, db_raises, unreadable, add_fails) ==
    IF db_raises THEN [NoLoad(coll, "raised") EXCEPT !.raised = TRUE]
    ELSE LET entries == AllEntries(rows, unreadable)
             added   == AddBatches(coll, entries, 1, add_fails)
         IN  [raised    |-> FALSE,
              load      |-> "ran",
              coll      |-> added.coll,
              adds      |-> added.adds,
              failed    |-> added.failed,
              submitted |-> added.submitted]

\* The count check: the load runs unless collection.count() returned a
\* positive number (an exception of count() is swallowed and the load runs).
\* count: what collection.count() does, "ok" or "raise".
NeedsLoad(coll, count) == ~(count = "ok" /\ Cardinality(coll) > 0)

\* _load_documents_if_needed (the collection is set when it is called).
_load_documents_if_needed(coll, rows, count, db_raises, unreadable, add_fails) ==
    IF NeedsLoad(coll, count)
    THEN _load_all_documents(coll, rows, db_raises, unreadable, add_fails)
    ELSE NoLoad(coll, "skipped")

(***************************************************************************)
(* The index: collection.query                                             *)
(*                                                                         *)
(* Distances are cosine distances, in units of 1/DistScale, in             *)
(* 0..2*DistScale.  The embedding geometry of a call is a number geo: it   *)
(* fixes the distance of every entry of the collection to the query.       *)
(***************************************************************************)
DistScale == 2
MaxDist == 2 * DistScale

KeyLess(a, b) == a[1] < b[1] \/ (a[1] = b[1] /\ a[2] < b[2])

Rank(coll, e) == Cardinality({x \in coll : KeyLess(x.key, e.key)})

Distance(coll, e, geo) == (geo + Rank(coll, e)) % (MaxDist + 1)

\* e is nearer than f (ties in key order).
Nearer(coll, geo, e, f) ==
    \/ Distance(coll, e, geo) < Distance(coll, f, geo)
    \/ Distance(coll, e, geo) = Distance(coll, f, geo) /\ KeyLess(e.key, f.key)

\* The entries of cands by increasing distance.
RECURSIVE Nearest(_, _, _)
Nearest(cands, coll, geo) ==
    IF cands = {} THEN <<>>
    ELSE LET e == CHOOSE x \in cands : \A y \in cands \ {x} : Nearer(coll, geo, x, y)
         IN  <<[doc |-> e.doc, meta |-> e.meta, distance |-> Distance(coll, e, geo)]>>
             \o Nearest(cands \ {e}, coll, geo)

\* A query that does not pass the module on to the index.
WhereUnfiltered(coll, module) == coll

\* where={"module": module} or where=None
Where(coll, module) ==
    IF Truthy(module) THEN {e \in coll : e.meta.module = module} ELSE coll

\* collection.query(query_texts=[query], n_results=n, where=...): the zipped
\* documents[0], metadatas[0], distances[0].
CollectionQuery(coll, module, n_results, geo) ==
    Take(Nearest(Where(coll, module), coll, geo), n_results)

(***************************************************************************)
(* Query path: VectorRAGTool.search                                        *)
(***************************************************************************)
max_n_results == 20

Min(a, b) == IF a < b THEN a ELSE b
Max(a, b) == IF a > b THEN a ELSE b

\* A similarity score without the clamp at 0.
SimilarityScoreUnclamped(distance) == Score(DistScale - distance, DistScale)

\* score = max(0, 1 - distance)
SimilarityScore(distance) == Score(Max(0, DistScale - distance), DistScale)

\* The loop over the neighbours from position i on.  bad_at is the position
\* of a neighbour whose metadata cannot be read (0: none): reaching it raises.
RECURSIVE ProcessNeighbours(_, _, _, _, _, _)
ProcessNeighbours(nbs, i, k, tags, bad_at, processed_results) ==
    IF i > Len(nbs) THEN Returned(processed_results)
    ELSE IF i = bad_at THEN Raised
    ELSE IF Truthy(tags) /\ ~HasAllTags(tags, nbs[i].meta.tags)
    THEN ProcessNeighbours(nbs, i + 1, k, tags, bad_at, processed_results)
    ELSE LET r == Result(nbs[i].meta.doc_id, nbs[i].meta.module, nbs[i].meta.tags,
                         SimilarityScore(nbs[i].distance), Excerpt(nbs[i].doc),
                         nbs[i].meta.path)
             next == Append(processed_results, r)
         IN  IF Len(next) >= k THEN Returned(next)
             ELSE ProcessNeighbours(nbs, i + 1, k, tags, bad_at, next)

\* An index query that asks for k neighbours only.
NResultsExact(k) == k

\* n_results=min(k * 2, 20)
NResults(k) == Min(k * 2, max_n_results)

\* The index queries of the try block of search, in the order they are
\* issued: what each asked for and how it ended.
\* ix = [raises, geo, bad_at] is what the index does in this call.
IndexQueries(coll, k, module, ix) ==
    << [n_results |-> NResults(k),
        raised    |-> ix.raises,
        answer    |-> IF ix.raises THEN <<>>
                      ELSE CollectionQuery(coll, module, NResults(k), ix.geo)] >>

\* The try block of search: the index query and the loop over its answer.
SimilaritySearch(coll, query, k, module, tags, ix) ==
    LET q == IndexQueries(coll, k, module, ix)[1]
    IN  IF q.raised THEN Raised
        ELSE IF q.answer = <<>> THEN Returned(<<>>)
        ELSE ProcessNeighbours(q.answer, 1, k, tags, ix.bad_at, <<>>)

\* if not self.model or not self.collection
Unavailable(t) == ~t.model \/ ~t.collection

\* A search that swallows a failure of the similarity path and returns
\* nothing instead of asking the fallback matcher.
SearchSwallow(t, coll, rows, query, k, module, tags, ix, db_raises, unreadable) ==
    IF Unavailable(t)
    THEN [path |-> "fallback",
          out  |-> _fallback_search(rows, query, k, module, tags, db_raises, unreadable)]
    ELSE LET sim == SimilaritySearch(coll, query, k, module, tags, ix)
         IN  IF sim.raised
             THEN [path |-> "failover", out |-> Returned(<<>>)]
             ELSE [path |-> "similarity", out |-> sim]

\* A search that tries the similarity path whatever the state of the model
\* and the collection.
SearchRetrying(t, coll, rows, query, k, module, tags, ix, db_raises, unreadable) ==
    LET sim == SimilaritySearch(coll, query, k, module, tags, ix)
    IN  IF sim.raised
        THEN [path |-> "failover",
              out  |-> _fallback_search(rows, query, k, module, tags,
                                        db_raises, unreadable)]
        ELSE [path |-> "similarity", out |-> sim]

\* A search that asks the fallback matcher when the similarity path found
\* nothing.
SearchEmptyFallsBack(t, coll, rows, query, k, module, tags, ix, db_raises, unreadable) ==
    IF Unavailable(t)
    THEN [path |-> "fallback",
          out  |-> _fallback_search(rows, query, k, module, tags, db_raises, unreadable)]
    ELSE LET sim == SimilaritySearch(coll, query, k, module, tags, ix)
         IN  IF sim.raised
             THEN [path |-> "failover",
                   out  |-> _fallback_search(rows, query, k, module, tags,
                                             db_raises, unreadable)]
             ELSE IF sim.results = <<>>
             THEN [path |-> "similarity",
                   out  |-> _fallback_search(rows, query, k, module, tags,
                                             db_raises, unreadable)]
             ELSE [path |-> "similarity", out |-> sim]

\* search: the path that served the call ("fallback": the backend is
\* unavailable; "failover": the similarity path raised and the except clause
\* called the fallback matcher; "similarity") and what the call ended with.
\* t: the tool's fields; coll: the entries of its collection.
search(t, coll, rows, query, k, module, tags, ix, db_raises, unreadable) ==
    IF Unavailable(t)
    THEN [path |-> "fallback",
          out  |-> _fallback_search(rows, query, k, module, tags, db_raises, unreadable)]
    ELSE LET sim == SimilaritySearch(coll, query, k, module, tags, ix)
         IN  IF sim.raised
             THEN [path |-> "failover",
                   out  |-> _fallback_search(rows, query, k, module, tags,
                                             db_raises, unreadable)]
             ELSE [path |-> "similarity", out |-> sim]

(***************************************************************************)
(* Construction: VectorRAGTool.__init__, _initialize_vector_components     *)
(***************************************************************************)
\* The fields of a tool: TRUE for a field that is set, FALSE for None.
Fields(model, chroma_client, collection) ==
    [model |-> model, chroma_client |-> chroma_client, collection |-> collection]

AllNone == Fields(FALSE, FALSE, FALSE)

\* An initializer whose except clause does not reset the fields: the fields
\* set before the exception stay set.
InitializeWithoutReset(coll, rows, fail, count, db_raises, unreadable, add_fails) ==
    IF fail # "none"
    THEN [fields |-> Fields(fail # "model", fail = "collection", FALSE),
          load |-> NoLoad(coll, "none")]
    ELSE [fields |-> Fields(TRUE, TRUE, TRUE),
          load |-> _load_documents_if_needed(coll, rows, count, db_raises,
                                             unreadable, add_fails)]

\* _initialize_vector_components.  fail names the step that raises:
\* "model" (SentenceTransformer), "client" (PersistentClient), "collection"
\* (get_or_create_collection) or "none".  An exception of any step, the load
\* included, leaves the three fields None.
\* An initializer whose except branch forgets the model: after a load that
\* raised, client and collection are None and the model stays set.
InitializeKeepingModel(coll, rows, fail, count, db_raises, unreadable, add_fails) ==
    IF fail # "none" THEN [fields |-> AllNone, load |-> NoLoad(coll, "none")]
    ELSE LET load == _load_documents_if_needed(coll, rows, count, db_raises,
                                               unreadable, add_fails)
         IN  [fields |-> IF load.raised THEN Fields(TRUE, FALSE, FALSE)
                                        ELSE Fields(TRUE, TRUE, TRUE),
              load   |-> load]

\* Result: the fields and what the load did ("none": it was not reached).
_initialize_vector_components(coll, rows, fail, count, db_raises, unreadable, add_fails) ==
    IF fail # "none" THEN [fields |-> AllNone, load |-> NoLoad(coll, "none")]
    ELSE LET load == _load_documents_if_needed(coll, rows, count, db_raises,
                                               unreadable, add_fails)
         IN  [fields |-> IF load.raised THEN AllNone ELSE Fields(TRUE, TRUE, TRUE),
              load   |-> load]

\* __init__
ToolInit(has_deps, coll, rows, fail, count, db_raises, unreadable, add_fails) ==
    IF has_deps
    THEN _initialize_vector_components(coll, rows, fail, count, db_raises,
                                       unreadable, add_fails)
    ELSE [fields |-> AllNone, load |-> NoLoad(coll, "none")]

(***************************************************************************)
(* State                                                                   *)
(***************************************************************************)
VARIABLES
    HAS_VECTOR_DEPS,  \* the import of sentence_transformers and chromadb succeeded
    rows,             \* the rows of the documents table
    store,            \* the persistent index: collection name -> set of entries
    tool,             \* tool slot -> [built, fields]
    build,            \* the last construction: what it saw and what it did
    call,             \* the search call in progress or just returned
    chunk_pc,         \* chunker check: "off", "input" or "done"
    chunk_text,       \* chunker check: the text given to _split_document
    chunk_out         \* chunker check: the chunks it returned

vars == <<HAS_VECTOR_DEPS, rows, store, tool, build, call,
          chunk_pc, chunk_text, chunk_out>>

sysvars == <<HAS_VECTOR_DEPS, rows, store, tool, build, call>>
chunkvars == <<chunk_pc, chunk_text, chunk_out>>

\* The tool slots: an agent's general tool, VectorRAGTool("main_documents").
Tools == {"rag"}

\* The domain adapters the agents hold: PolicyRAGTool, DocRAGTool,
\* DefinitionRAGTool and SalesRAGTool.
Adapters == {"policy_rag", "doc_rag", "definition_rag", "sales_rag"}

Objects == Tools \cup Adapters

\* Every tool object bound to one collection.
CollectionNameShared(t) == "main_documents"

\* self.collection_name
CollectionName(t) ==
    CASE t = "policy_rag"     -> "policy_documents"
      [] t = "doc_rag"        -> "business_documents"
      [] t = "definition_rag" -> "definition_documents"
      [] t = "sales_rag"      -> "sales_documents"
      [] OTHER                -> "main_documents"

CollectionNames == {CollectionName(t) : t \in Objects}

(***************************************************************************)
(* Inputs                                                                  *)
(***************************************************************************)
MaxK == 2

\* A k whose double is over max_n_results.
BigK == 11

\* The values of k of a call: the least, the bound, and one past the cap.
Ks == {1, MaxK, BigK}

Queries ==
    { Lit(<<"r","e","f","u","n","d">>),
      Lit(<<"F","e","e"," "," ","s","h","i","p">>),
      Empty }

ModuleFilters == {None, Empty, ModSales, ModInventory}

TagFilters ==
    { None,
      Lit(<<"P","O","L","I","C","Y">>),
      Lit(<<"h","r"," ",",","p","o","l","i","c","y",",">>) }

\* What the document source does during one call: database.query raises,
\* or it answers and the files in unreadable fail to open.
SourceChoices ==
    { [db_raises |-> TRUE, unreadable |-> {}],
      [db_raises |-> FALSE, unreadable |-> {}],
      [db_raises |-> FALSE, unreadable |-> {"p1"}] }

Healthy == [db_raises |-> FALSE, unreadable |-> {}]

\* The embedding geometries of a call.
Geometries == 0..MaxDist

\* The most neighbours one answer of the index holds.
MaxNeighbours == 4

NoIndex == [raises |-> FALSE, geo |-> 0, bad_at |-> 0]

\* What the index does during one call.
IndexChoices ==
    {[raises |-> TRUE, geo |-> 0, bad_at |-> 0]}
    \cup [raises : {FALSE}, geo : Geometries, bad_at : 0..MaxNeighbours]

\* What the index and the document source do during one search call of a
\* tool: the document source matters only to the fallback matcher.
SearchChoices(unavailable) ==
    IF unavailable THEN {NoIndex} \X SourceChoices
    ELSE ({ix \in IndexChoices : ~ix.raises /\ ix.bad_at = 0} \X {Healthy})
         \cup ({ix \in IndexChoices : ix.raises \/ ix.bad_at > 0} \X SourceChoices)

NoOutcome == [raised |-> FALSE, results |-> <<>>]

NoCall ==
    [active |-> FALSE, tool |-> "", query |-> Empty, k |-> 0, module |-> None,
     tags |-> None, unavailable |-> FALSE, path |-> "", out |-> NoOutcome,
     fallback |-> NoOutcome, queries |-> <<>>, collection |-> ""]

NoBuild ==
    [tool |-> "", before |-> 0, after |-> 0, adds |-> 0, count |-> "",
     load |-> "none"]

(***************************************************************************)
(* Actions                                                                 *)
(***************************************************************************)
InitSys ==
    /\ HAS_VECTOR_DEPS \in BOOLEAN
    /\ rows \in Catalogues
    /\ store = [c \in CollectionNames |-> {}]
    /\ tool = [t \in Objects |-> [built |-> FALSE, fields |-> AllNone]]
    /\ build = NoBuild
    /\ call = NoCall

Init ==
    /\ InitSys
    /\ chunk_pc = "off"
    /\ chunk_text = Empty
    /\ chunk_out = <<>>

\* What happens during one construction: the step of the initialization that
\* raises (if any), how collection.count() ends, what the document source
\* does, and the batches whose collection.add raises.
BuildChoices ==
    [fail : {"none", "model", "client", "collection"},
     count : {"ok", "raise"},
     src : SourceChoices,
     add_fails : SUBSET {1}]

\* A tool object is constructed in slot t while e happens.
ConstructWith(t, e) ==
    LET c == CollectionName(t) IN
    \E r \in {ToolInit(HAS_VECTOR_DEPS, store[c], rows, e.fail, e.count,
                        e.src.db_raises, e.src.unreadable, e.add_fails)} :
        /\ tool' = [tool EXCEPT ![t] = [built |-> TRUE, fields |-> r.fields]]
        /\ store' = [store EXCEPT ![c] = r.load.coll]
        /\ build' = [tool |-> t, before |-> Cardinality(store[c]),
                     after |-> Cardinality(r.load.coll), adds |-> r.load.adds,
                     count |-> IF HAS_VECTOR_DEPS /\ e.fail = "none"
                               THEN e.count ELSE "",
                     load |-> r.load.load]
        /\ UNCHANGED <<HAS_VECTOR_DEPS, rows, call, chunkvars>>

\* A tool object is constructed in slot t (a new object replaces the old one).
Construct(t) ==
    /\ ~call.active
    /\ \E e \in BuildChoices : ConstructWith(t, e)

\* A search call that drops the entries of the collection when the similarity
\* path did not serve it.
SearchCallClearing(t, query, k, module, tags, env) ==
    LET ix  == env[1]
        src == env[2]
    IN  \E r \in {search(tool[t].fields, store[CollectionName(t)], rows,
                          query, k, module, tags, ix,
                          src.db_raises, src.unreadable)} :
        /\ call' = [NoCall EXCEPT !.active = TRUE, !.tool = t, !.query = query,
                                  !.k = k, !.module = module, !.tags = tags,
                                  !.unavailable = Unavailable(tool[t].fields),
                                  !.path = r.path, !.out = r.out]
        /\ store' = IF r.path = "failover"
                    THEN [store EXCEPT ![CollectionName(t)] = {}]
                    ELSE store
        /\ UNCHANGED <<HAS_VECTOR_DEPS, rows, tool, build, chunkvars>>

\* tool t serves search(query, k, module, tags) while the index and the
\* document source do env.  The call record keeps what the fallback matcher
\* returns for the same arguments in the same call when the call went to it,
\* the index queries of a call that the similarity path served, and the
\* collection the call queried (if any).
SearchCall(t, query, k, module, tags, env) ==
    LET ix  == env[1]
        src == env[2]
    IN  \E r \in {search(tool[t].fields, store[CollectionName(t)], rows,
                          query, k, module, tags, ix,
                          src.db_raises, src.unreadable)} :
        /\ call' = [active |-> TRUE, tool |-> t, query |-> query, k |-> k,
                    module |-> module, tags |-> tags,
                    unavailable |-> Unavailable(tool[t].fields),
                    path |-> r.path, out |-> r.out,
                    fallback |-> IF r.path = "similarity" THEN NoOutcome
                                 ELSE _fallback_search(rows, query, k, module, tags,
                                          src.db_raises, src.unreadable),
                    queries |-> IF r.path = "similarity"
                                THEN IndexQueries(store[CollectionName(t)], k,
                                                  module, ix)
                                ELSE <<>>,
                    collection |-> IF Unavailable(tool[t].fields) THEN ""
                                   ELSE CollectionName(t)]
        /\ UNCHANGED <<HAS_VECTOR_DEPS, rows, store, tool, build, chunkvars>>

Search(t) ==
    /\ tool[t].built
    /\ ~call.active
    /\ \E query \in Queries, k \in Ks, module \in ModuleFilters,
          tags \in TagFilters,
          env \in SearchChoices(Unavailable(tool[t].fields)) :
          SearchCall(t, query, k, module, tags, env)

\* The caller takes the result of the call.
TakeResult ==
    /\ call.active
    /\ call' = NoCall
    /\ UNCHANGED <<HAS_VECTOR_DEPS, rows, store, tool, build, chunkvars>>

Next ==
    \/ \E t \in Tools : Construct(t)
    \/ \E t \in Tools : Search(t)
    \/ TakeResult

Spec == Init /\ [][Next]_vars

(***************************************************************************)
(* The chunker on its own: _split_document applied to a text               *)
(***************************************************************************)
MaxRuns == 3

TextChars == {"a", " ", "\n"}

\* The lengths of a run of letters or spaces, and of a run of newlines.
RunLens == {1, 2, 3, max_chunk_size \div 2, max_chunk_size, max_chunk_size + 1}
BreakLens == {1, 2, 3}

\* The texts of at most MaxRuns runs.
TextInputs ==
    UNION { {s \in [1..n -> [c : TextChars, n : RunLens]] :
                /\ \A i \in 1..(n - 1) : s[i].c # s[i + 1].c
                /\ \A i \in 1..n : s[i].c = "\n" => s[i].n \in BreakLens}
            : n \in 0..MaxRuns }

InitChunk ==
    /\ HAS_VECTOR_DEPS = FALSE
    /\ rows = <<>>
    /\ store = [c \in CollectionNames |-> {}]
    /\ tool = [t \in Objects |-> [built |-> FALSE, fields |-> AllNone]]
    /\ build = NoBuild
    /\ call = NoCall
    /\ chunk_pc = "input"
    /\ chunk_text \in TextInputs
    /\ chunk_out = <<>>

SplitDocument ==
    /\ chunk_pc = "input"
    /\ chunk_out' = _split_document(chunk_text)
    /\ chunk_pc' = "done"
    /\ UNCHANGED <<chunk_text, sysvars>>

NextChunk == SplitDocument

SpecChunk == InitChunk /\ [][NextChunk]_vars

(***************************************************************************)
(* The scenarios of one document and of no document                        *)
(***************************************************************************)
RefundQuery ==
    Lit(<<"r","e","f","u","n","d"," ","t","i","m","e","f","r","a","m","e">>)

PolicyTag == Lit(<<"p","o","l","i","c","y">>)

ScenarioQueries == Queries \cup {RefundQuery}

\* k of the refund scenario and k of the empty-corpus scenario.
ScenarioKs == {1, 5}

ScenarioTags == {None, PolicyTag}

InitScenario ==
    /\ HAS_VECTOR_DEPS \in BOOLEAN
    /\ rows \in ScenarioCatalogues
    /\ store = [c \in CollectionNames |-> {}]
    /\ tool = [t \in Objects |-> [built |-> FALSE, fields |-> AllNone]]
    /\ build = NoBuild
    /\ call = NoCall
    /\ chunk_pc = "off"
    /\ chunk_text = Empty
    /\ chunk_out = <<>>

\* tool t serves a search call of the scenarios.
ScenarioSearch(t) ==
    /\ tool[t].built
    /\ ~call.active
    /\ \E query \in ScenarioQueries, k \in ScenarioKs, tags \in ScenarioTags,
          env \in SearchChoices(Unavailable(tool[t].fields)) :
          SearchCall(t, query, k, None, tags, env)

NextScenario ==
    \/ \E t \in Tools : Construct(t)
    \/ \E t \in Tools : ScenarioSearch(t)
    \/ TakeResult

SpecScenario == InitScenario /\ [][NextScenario]_vars

(***************************************************************************)
(* The domain adapters and the agents that hold them                       *)
(***************************************************************************)
TagContracts == Lit(<<"c","o","n","t","r","a","c","t","s">>)
TagIncidents == Lit(<<"i","n","c","i","d","e","n","t","s">>)
TagGlossary  == Lit(<<"g","l","o","s","s","a","r","y">>)
TagMetrics   == Lit(<<"m","e","t","r","i","c","s">>)
TagGlossaryMetrics == Concat(Concat(TagGlossary, Lit(<<",">>)), TagMetrics)

\* The search operations of the adapters: the module and the tags each one
\* passes to search.
AdapterOps ==
    { [tool |-> "policy_rag", op |-> "search_policies",
       module |-> None, tags |-> PolicyTag],
      [tool |-> "doc_rag", op |-> "search_contracts",
       module |-> ModInventory, tags |-> TagContracts],
      [tool |-> "doc_rag", op |-> "search_incidents",
       module |-> None, tags |-> TagIncidents],
      [tool |-> "definition_rag", op |-> "search_definitions",
       module |-> None, tags |-> TagGlossaryMetrics],
      [tool |-> "sales_rag", op |-> "search_procedures",
       module |-> ModSales, tags |-> None] }

\* The adapters on which an agent calls the inherited search itself:
\* self.policy_rag.search(query, k=3) and self.sales_rag.search(query, k=3).
DirectlySearched == {"policy_rag", "sales_rag"}

\* The catalogue of the adapter runs: a policy document of module sales, a
\* contract of module inventory, and a glossary of module sales.
AdapterRows ==
    << Row(1, ModSales, "p1", Lit(<<"P","o","l","i","c","y",","," ","h","r">>)),
       Row(2, ModInventory, "p2", TagContracts),
       Row(3, ModSales, "p3",
           Concat(Concat(TagMetrics, Lit(<<","," ">>)), TagGlossary)) >>

\* The values of k the agents pass to an adapter (k=2, k=3).
AdapterKs == {2, 3}

AdapterQueries ==
    { Lit(<<"r","e","f","u","n","d">>), Lit(<<"f","e","e">>) }

\* The constructions of an adapter: every step succeeds or the index client
\* raises; the document source is healthy.
AdapterBuildChoices ==
    [fail : {"none", "client"}, count : {"ok", "raise"},
     src : {Healthy}, add_fails : {{}}]

\* What happens during a search call of an adapter: the index answers in
\* some geometry, or it raises and the document source does what it does.
AdapterSearchChoices(unavailable) ==
    {env \in SearchChoices(unavailable) : env[1].bad_at = 0}

InitAdapters ==
    /\ HAS_VECTOR_DEPS \in BOOLEAN
    /\ rows = AdapterRows
    /\ store = [c \in CollectionNames |-> {}]
    /\ tool = [t \in Objects |-> [built |-> FALSE, fields |-> AllNone]]
    /\ build = NoBuild
    /\ call = NoCall
    /\ chunk_pc = "off"
    /\ chunk_text = Empty
    /\ chunk_out = <<>>

\* An agent constructs its adapter, once.
ConstructAdapter(a) ==
    /\ ~tool[a].built
    /\ ~call.active
    /\ \E e \in AdapterBuildChoices : ConstructWith(a, e)

\* An agent calls a search operation of its adapter.
AdapterSearch(o) ==
    /\ tool[o.tool].built
    /\ ~call.active
    /\ \E query \in AdapterQueries, k \in AdapterKs,
          env \in AdapterSearchChoices(Unavailable(tool[o.tool].fields)) :
          SearchCall(o.tool, query, k, o.module, o.tags, env)

\* An agent calls search(query, k=3) on its adapter.
DirectSearch(a) ==
    /\ tool[a].built
    /\ ~call.active
    /\ \E query \in AdapterQueries,
          env \in AdapterSearchChoices(Unavailable(tool[a].fields)) :
          SearchCall(a, query, 3, None, None, env)

NextAdapters ==
    \/ \E a \in Adapters : ConstructAdapter(a)
    \/ \E o \in AdapterOps : AdapterSearch(o)
    \/ \E a \in DirectlySearched : DirectSearch(a)
    \/ TakeResult

SpecAdapters == InitAdapters /\ [][NextAdapters]_vars

(***************************************************************************)
(* The fallback matcher on a tool without the dependencies: the calls of   *)
(* search on an object whose fields are None, with what the document       *)
(* source did during the call kept in the call record.                     *)
(***************************************************************************)
FallbackQueries ==
    { Lit(<<"f","e","e">>),
      Lit(<<"r","e","f","u","n","d"," ","F","E","E">>),
      Lit(<<"s","h","i","p"," ","f","e","e","\n","r","e","f","u","n","d">>),
      Lit(<<"t","a","x">>) }

FallbackKs == {1, 2}

\* The state after the construction of a tool where the imports failed.
InitFallback ==
    /\ HAS_VECTOR_DEPS = FALSE
    /\ rows = AllRows
    /\ store = [c \in CollectionNames |-> {}]
    /\ tool = [t \in Objects |->
                  IF t \in Tools
                  THEN [built |-> TRUE,
                        fields |-> ToolInit(FALSE, {}, AllRows, "none", "ok",
                                            FALSE, {}, {}).fields]
                  ELSE [built |-> FALSE, fields |-> AllNone]]
    /\ build = NoBuild
    /\ call = NoCall
    /\ chunk_pc = "off"
    /\ chunk_text = Empty
    /\ chunk_out = <<>>

\* search on tool t while the document source does src; the call record
\* keeps the files that failed to open during the call.
FallbackCall(t, query, k, module, tags, src) ==
    \E r \in {search(tool[t].fields, store[CollectionName(t)], rows,
                      query, k, module, tags, NoIndex,
                      src.db_raises, src.unreadable)} :
        /\ call' = [active |-> TRUE, tool |-> t, query |-> query, k |-> k,
                    module |-> module, tags |-> tags,
                    unavailable |-> Unavailable(tool[t].fields),
                    path |-> r.path, out |-> r.out,
                    fallback |-> NoOutcome, queries |-> <<>>,
                    collection |-> "",
                    unreadable |-> src.unreadable]
        /\ UNCHANGED <<HAS_VECTOR_DEPS, rows, store, tool, build, chunkvars>>

FallbackSearch(t) ==
    /\ tool[t].built
    /\ Unavailable(tool[t].fields)
    /\ ~call.active
    /\ \E query \in FallbackQueries, k \in FallbackKs,
          module \in ModuleFilters, tags \in TagFilters,
          src \in SourceChoices :
          FallbackCall(t, query, k, module, tags, src)

NextFallback ==
    \/ \E t \in Tools : FallbackSearch(t)
    \/ TakeResult

SpecFallback == InitFallback /\ [][NextFallback]_vars

(***************************************************************************)
(* Builds of a collection that takes several batches.  The build record    *)
(* also keeps the batches whose add raised, the keys passed to             *)
(* collection.add and the files that failed to open.                       *)
(***************************************************************************)
BatchBuildChoices ==
    [count : {"ok", "raise"},
     unreadable : {{}, {"b2"}},
     add_fails : SUBSET (1..NumBatches(AllEntries(BatchRows, {})))]

InitBatch ==
    /\ HAS_VECTOR_DEPS = TRUE
    /\ rows = BatchRows
    /\ store = [c \in CollectionNames |-> {}]
    /\ tool = [t \in Objects |-> [built |-> FALSE, fields |-> AllNone]]
    /\ build = NoBuild
    /\ call = NoCall
    /\ chunk_pc = "off"
    /\ chunk_text = Empty
    /\ chunk_out = <<>>

\* A tool object is constructed in slot t: the initialization steps succeed,
\* the document source answers, and e tells how count() ends, which files
\* fail to open and which adds raise.
BatchConstruct(t) ==
    \E e \in BatchBuildChoices :
        LET c == CollectionName(t) IN
        \E r \in {ToolInit(HAS_VECTOR_DEPS, store[c], rows, "none", e.count,
                            FALSE, e.unreadable, e.add_fails)} :
            /\ tool' = [tool EXCEPT ![t] = [built |-> TRUE, fields |-> r.fields]]
            /\ store' = [store EXCEPT ![c] = r.load.coll]
            /\ build' = [tool |-> t, before |-> Cardinality(store[c]),
                         after |-> Cardinality(r.load.coll),
                         adds |-> r.load.adds, count |-> e.count,
                         load |-> r.load.load, failed |-> r.load.failed,
                         submitted |-> r.load.submitted,
                         unreadable |-> e.unreadable,
                         found |-> store[c]]
            /\ UNCHANGED <<HAS_VECTOR_DEPS, rows, call, chunkvars>>

NextBatch == \E t \in Tools : BatchConstruct(t)

SpecBatch == InitBatch /\ [][NextBatch]_vars

(***************************************************************************)
(* Two constructions on "main_documents" whose steps interleave.  A        *)
(* construction is two steps: the count check of _load_documents_if_needed *)
(* and, unless the check returned, _load_all_documents.  The catalogue     *)
(* fits into one batch, so a load makes at most one call of                *)
(* collection.add.  build maps each retriever to how far its construction  *)
(* is and what it saw and did.                                             *)
(***************************************************************************)
Retrievers == {"finance", "sales"}

NotStarted ==
    [pc |-> "start", count |-> "", saw |-> 0, behind |-> {}, load |-> "none",
     submitted |-> {}, wrote |-> FALSE]

InitRace ==
    /\ HAS_VECTOR_DEPS = TRUE
    /\ rows = AllRows
    /\ store = [c \in CollectionNames |-> {}]
    /\ tool = [t \in Retrievers |-> [built |-> FALSE, fields |-> AllNone]]
    /\ build = [t \in Retrievers |-> NotStarted]
    /\ call = NoCall
    /\ chunk_pc = "off"
    /\ chunk_text = Empty
    /\ chunk_out = <<>>

\* The construction of t up to the count check: model, client and collection
\* are set and collection.count() returns or raises.  A positive count ends
\* the construction.
CountStep(t) ==
    /\ build[t].pc = "start"
    /\ \E count \in {"ok", "raise"} :
          LET coll == store[CollectionName(t)]
              seen == [build[t] EXCEPT
                          !.count = count,
                          !.saw = IF count = "ok" THEN Cardinality(coll) ELSE 0,
                          !.behind = {o \in Retrievers : build[o].pc = "done"}]
          IN  IF NeedsLoad(coll, count)
              THEN /\ build' = [build EXCEPT ![t] = [seen EXCEPT !.pc = "counted"]]
                   /\ tool' = tool
              ELSE /\ build' = [build EXCEPT ![t] =
                                   [seen EXCEPT !.pc = "done", !.load = "skipped"]]
                   /\ tool' = [tool EXCEPT ![t] =
                                  [built |-> TRUE, fields |-> Fields(TRUE, TRUE, TRUE)]]
    /\ UNCHANGED <<HAS_VECTOR_DEPS, rows, store, call, chunkvars>>

\* The rest of the construction of t: _load_all_documents on the collection
\* as it is now, and the except branch of the initializer when it raises.
LoadStep(t) ==
    /\ build[t].pc = "counted"
    /\ \E src \in SourceChoices, add_fails \in SUBSET {1} :
          \E r \in {_load_all_documents(store[CollectionName(t)], rows,
                         src.db_raises, src.unreadable, add_fails)} :
              /\ store' = [store EXCEPT ![CollectionName(t)] = r.coll]
              /\ build' = [build EXCEPT ![t] =
                              [@ EXCEPT !.pc = "done", !.load = r.load,
                                        !.submitted = r.submitted,
                                        !.wrote = r.adds > Cardinality(r.failed)]]
              /\ tool' = [tool EXCEPT ![t] =
                             [built |-> TRUE,
                              fields |-> IF r.raised THEN AllNone
                                         ELSE Fields(TRUE, TRUE, TRUE)]]
    /\ UNCHANGED <<HAS_VECTOR_DEPS, rows, call, chunkvars>>

NextRace ==
    \/ \E t \in Retrievers : CountStep(t)
    \/ \E t \in Retrievers : LoadStep(t)

SpecRace == InitRace /\ [][NextRace]_vars

(***************************************************************************)
(* Properties                                                              *)
(***************************************************************************)
Results == call.out.results

MainColl == store["main_documents"]

\* C1: a search call with a positive k returns at most k Results, whether the
\* similarity path or the fallback matcher served it.
C1_AtMostK == call.active => Len(Results) <= call.k

\* A call served by the similarity path returned exactly k Results although
\* the collection held more unfiltered entries.
C1_Witness ==
    /\ call.active /\ call.path = "similarity"
    /\ call.module = None /\ call.tags = None
    /\ Len(Results) = call.k
    /\ Cardinality(MainColl) > call.k

\* C2: with a tags filter, every returned Result belongs to a document whose
\* tag set (comma-split, trimmed, lower-cased) contains every requested tag.
C2_TagsSuperset ==
    call.active /\ Truthy(call.tags) =>
        \A i \in 1..Len(Results) :
            \E j \in 1..Len(rows) :
                /\ rows[j].id = Results[i].id
                /\ \A tg \in TagSet(call.tags) : tg \in TagSet(OrEmpty(rows[j].tags))

\* The similarity path returned a Result under a filter of two tags.
C2_Witness ==
    /\ call.active /\ call.path = "similarity"
    /\ Truthy(call.tags) /\ Cardinality(TagSet(call.tags)) = 2
    /\ Results # <<>>
    /\ \E e \in MainColl : ~(TagSet(call.tags) \subseteq TagSet(e.meta.tags))

\* C3: with a module filter m, every returned Result has module m, on the
\* similarity path and on the fallback path.  (A module of "" is no filter to
\* the code, like None: `if module:`.)
C3_ModuleMatch ==
    call.active /\ Truthy(call.module) =>
        \A i \in 1..Len(Results) : Results[i].module = call.module

\* The similarity path returned Results for module inventory while the
\* collection held entries of module sales.
C3_Witness ==
    /\ call.active /\ call.path = "similarity"
    /\ call.module = ModInventory
    /\ Results # <<>>
    /\ \E e \in MainColl : e.meta.module = ModSales

\* C4: every score of every returned Result lies in [0, 1].
C4_ScoreRange ==
    call.active =>
        \A i \in 1..Len(Results) :
            /\ Results[i].score.den > 0
            /\ 0 <= Results[i].score.num
            /\ Results[i].score.num <= Results[i].score.den

\* The similarity path returned a Result whose score was clamped to 0 (its
\* distance was 1 or more) beside one of a positive score.
C4_Witness ==
    /\ call.active /\ call.path = "similarity"
    /\ \E i \in 1..Len(Results) : Results[i].score.num = 0
    /\ \E i \in 1..Len(Results) : Results[i].score.num > 0

\* C5: when the model or the collection is unavailable, search does not
\* raise, goes to the fallback matcher and returns exactly its result.
C5_UnavailableFallsBack ==
    call.active /\ call.unavailable =>
        /\ ~call.out.raised
        /\ call.path = "fallback"
        /\ call.out = call.fallback

\* C6: when the similarity path of a call raises, the call ends exactly as
\* the fallback matcher does for the same arguments: nothing built on the
\* similarity path is kept and the exception of the similarity path is not
\* the caller's.
C6_FailoverIsFallback ==
    call.active /\ call.path = "failover" =>
        /\ ~call.unavailable
        /\ call.out = call.fallback

\* The similarity path raised and the call returned the Results of the
\* fallback matcher.
C6_Witness ==
    /\ call.active /\ call.path = "failover"
    /\ ~call.out.raised
    /\ Results # <<>>

\* C7: no search call ends in an exception delivered to the caller.
C7_NeverRaises == call.active => ~call.out.raised

\* C8: a construction on a collection that already holds an entry performs
\* no write, and the entry count is the same before and after.
C8_IdempotentBuild ==
    build.tool # "" /\ build.before > 0 =>
        /\ build.adds = 0
        /\ build.after = build.before

\* A text has a character that is not whitespace.
HasNonSpace(text) == \E i \in 1..Len(text) : ~IsSpace(text[i].c)

\* C9: _split_document returns at least one chunk for a text with a
\* non-whitespace character and no chunk for an empty or blank text.
C9_NonEmptyIffNonBlank ==
    chunk_pc = "done" => (chunk_out # <<>> <=> HasNonSpace(chunk_text))

\* A text of blank and non-blank paragraphs was split into chunks.
C9_Witness ==
    /\ chunk_pc = "done"
    /\ HasNonSpace(chunk_text)
    /\ \E i \in 1..Len(chunk_text) : chunk_text[i].c = "\n" /\ chunk_text[i].n >= 2
    /\ chunk_out # <<>>

\* No paragraph of the text is longer than max_chunk_size.
ParagraphsWithinMax(text) ==
    LET ps == SplitParagraphs(text)
    IN  \A i \in 1..Len(ps) : StrLen(Strip(ps[i])) <= max_chunk_size

\* C10: when no paragraph is longer than max_chunk_size, no chunk is.
C10_ChunksWithinMax ==
    chunk_pc = "done" /\ ParagraphsWithinMax(chunk_text) =>
        \A i \in 1..Len(chunk_out) : StrLen(chunk_out[i]) <= max_chunk_size


\* The non-blank paragraphs of a text, stripped, in the order of the text.
RECURSIVE StrippedParagraphs(_)
StrippedParagraphs(ps) ==
    IF ps = <<>> THEN <<>>
    ELSE IF Strip(ps[1]) = Empty THEN StrippedParagraphs(Tail(ps))
    ELSE <<Strip(ps[1])>> \o StrippedParagraphs(Tail(ps))

NonBlankParagraphs(text) == StrippedParagraphs(SplitParagraphs(text))

\* The paragraphs of the chunks, chunk after chunk: each chunk cut at its
\* blank lines.
RECURSIVE ParagraphsOfChunks(_)
ParagraphsOfChunks(chunks) ==
    IF chunks = <<>> THEN <<>>
    ELSE SplitParagraphs(chunks[1]) \o ParagraphsOfChunks(Tail(chunks))

\* C18: a text of one paragraph longer than max_chunk_size yields one chunk,
\* cut to exactly max_chunk_size characters.
C18_LongParagraphTruncated ==
    chunk_pc = "done"
    /\ Len(NonBlankParagraphs(chunk_text)) = 1
    /\ StrLen(NonBlankParagraphs(chunk_text)[1]) > max_chunk_size =>
        /\ Len(chunk_out) = 1
        /\ StrLen(chunk_out[1]) = max_chunk_size

\* C19: the chunks partition the paragraphs: no chunk is empty, and the
\* chunks cut at their blank lines give back every non-blank paragraph of the
\* text, stripped and whole, exactly once and in the order of the text.
C19_ChunksPartitionParagraphs ==
    chunk_pc = "done" =>
        /\ \A i \in 1..Len(chunk_out) : chunk_out[i] # Empty
        /\ ParagraphsOfChunks(chunk_out) = NonBlankParagraphs(chunk_text)

\* A text of two non-blank paragraphs that do not fit one chunk was split
\* into two chunks.
C19_Witness ==
    /\ chunk_pc = "done"
    /\ Len(NonBlankParagraphs(chunk_text)) = 2
    /\ Len(chunk_out) = 2

\* C17: a construction writes to the collection only after the collection
\* reported a count of zero: a count check that ended any other way is
\* followed by no write.
C17_WritesOnlyOnZeroCount ==
    build.tool # "" /\ build.adds > 0 =>
        /\ build.count = "ok"
        /\ build.before = 0

\* The Results of the neighbours that pass the tag filter, in the order of
\* the index's answer.
RECURSIVE Qualifying(_, _)
Qualifying(nbs, tags) ==
    IF nbs = <<>> THEN <<>>
    ELSE LET nb == nbs[1]
         IN  IF Truthy(tags) /\ ~(TagSet(tags) \subseteq TagSet(nb.meta.tags))
             THEN Qualifying(Tail(nbs), tags)
             ELSE <<Result(nb.meta.doc_id, nb.meta.module, nb.meta.tags,
                           SimilarityScore(nb.distance), Excerpt(nb.doc),
                           nb.meta.path)>>
                  \o Qualifying(Tail(nbs), tags)

\* C20: a call served by the similarity path issued exactly one index query,
\* for min(2k, 20) neighbours, and returned the first k neighbours of the
\* answer that pass the tag filter, in the order of the answer (all of them
\* when fewer than k pass).
C20_OneQueryFirstKQualifying ==
    call.active /\ call.path = "similarity" =>
        /\ Len(call.queries) = 1
        /\ call.queries[1].n_results = (IF 2 * call.k < 20 THEN 2 * call.k ELSE 20)
        /\ Len(call.queries[1].answer) <= call.queries[1].n_results
        /\ Results = Take(Qualifying(call.queries[1].answer, call.tags), call.k)

\* The similarity path skipped the nearest neighbour, which did not pass the
\* tag filter, returned a later one, and returned fewer than k Results.
C20_Witness ==
    /\ call.active /\ call.path = "similarity"
    /\ Truthy(call.tags)
    /\ Len(call.queries[1].answer) >= 2
    /\ ~(TagSet(call.tags) \subseteq TagSet(call.queries[1].answer[1].meta.tags))
    /\ Results # <<>>
    /\ Len(Results) < call.k

\* C13: a tool object whose model or collection is missing stays so: a
\* search call and the taking of its result leave the fields of every tool
\* object as they are, and a call on such an object is served by the fallback
\* matcher.  (Only the construction of a new object sets fields.)
C13_DegradedForLife ==
    [][call' # call =>
          /\ tool' = tool
          /\ (call'.active /\ Unavailable(tool[call'.tool].fields) =>
                  call'.path = "fallback")]_vars

\* A tool object whose initialization failed with the dependencies present
\* served a search call by the fallback matcher.
C13_Witness ==
    /\ HAS_VECTOR_DEPS
    /\ call.active
    /\ tool[call.tool].fields = AllNone
    /\ call.path = "fallback"

\* The call of the refund scenario on the corpus of the refund scenario.
RefundCall ==
    /\ call.active
    /\ rows = RefundRows
    /\ call.query = RefundQuery /\ call.k = 1
    /\ call.module = None /\ call.tags = PolicyTag

\* The call returned one Result, of the refund document, whose excerpt holds
\* the whole sentence (the content is shorter than an excerpt).
OneRefundResult ==
    /\ ~call.out.raised
    /\ Len(Results) = 1
    /\ Results[1].id = RefundRows[1].id
    /\ Results[1].excerpt = RefundText

\* C11 as stated: the call of the refund scenario returns exactly one Result,
\* of the refund document, with the sentence in its excerpt, whichever path
\* serves it.
C11_RefundScenario == RefundCall => OneRefundResult

\* C11 amended: the call of the refund scenario returns that one Result when
\* the similarity path serves it on a collection that holds the document's
\* chunk; when the fallback matcher serves it and returns, it returns no
\* Result (no word of the query is a word of the document).
C11_RefundScenarioByPath ==
    RefundCall =>
        /\ (call.path = "similarity" /\ MainColl # {} => OneRefundResult)
        /\ (call.path # "similarity" /\ ~call.out.raised => Results = <<>>)

\* The similarity path served the call of the refund scenario on a built
\* collection.
C11_Witness ==
    /\ RefundCall
    /\ call.path = "similarity"
    /\ MainColl # {}
    /\ Len(Results) = 1

\* C12: on the empty corpus a search call with k = 5 returns no Result and
\* raises nothing, whichever path serves it.
C12_EmptyCorpus ==
    call.active /\ rows = <<>> /\ call.k = 5 =>
        /\ ~call.out.raised
        /\ Results = <<>>

\* The tags of a Result, as a set.
ResultTags(r) == TagSet(OrEmpty(r.tags))

\* A Result satisfies the default filter of adapter a.
SatisfiesDefault(a, r) ==
    CASE a = "policy_rag"     -> PolicyTag \in ResultTags(r)
      [] a = "sales_rag"      -> r.module = ModSales
      [] a = "definition_rag" -> {TagGlossary, TagMetrics} \subseteq ResultTags(r)
      [] a = "doc_rag"        -> \/ r.module = ModInventory /\ TagContracts \in ResultTags(r)
                                 \/ TagIncidents \in ResultTags(r)
      [] OTHER                -> TRUE

\* C15: every Result that a search call on an adapter returns satisfies the
\* default filter of the adapter.
C15_AdapterDefaultFilter ==
    call.active /\ call.tool \in Adapters =>
        \A i \in 1..Len(Results) : SatisfiesDefault(call.tool, Results[i])

\* The collection name each adapter class passes to the constructor.
OwnCollection ==
    [a \in Adapters |->
        CASE a = "policy_rag"     -> "policy_documents"
          [] a = "doc_rag"        -> "business_documents"
          [] a = "definition_rag" -> "definition_documents"
          [] a = "sales_rag"      -> "sales_documents"]

\* C16: the adapters are bound to pairwise distinct collections; the
\* collection of an adapter that was not constructed is empty (no other
\* adapter's build wrote to it); a collection that holds entries belongs to
\* an adapter whose own construction succeeded; and a search call on an
\* adapter queries the adapter's own collection.
C16_AdapterIsolation ==
    /\ \A a, b \in Adapters : a # b => CollectionName(a) # CollectionName(b)
    /\ \A a \in Adapters : ~tool[a].built => store[CollectionName(a)] = {}
    /\ \A a \in Adapters :
           tool[a].built /\ store[OwnCollection[a]] # {} => ~Unavailable(tool[a].fields)
    /\ call.active /\ call.tool \in Adapters /\ ~call.unavailable =>
           call.collection = OwnCollection[call.tool]

\* Two adapters were constructed and hold entries, a third was not and its
\* collection is empty, and the similarity path served a call on an adapter.
C16_Witness ==
    /\ \E a, b, c \in Adapters :
           /\ a # b
           /\ tool[a].built /\ store[CollectionName(a)] # {}
           /\ tool[b].built /\ store[CollectionName(b)] # {}
           /\ ~tool[c].built /\ store[CollectionName(c)] = {}
    /\ call.active /\ call.tool \in Adapters
    /\ call.path = "similarity" /\ Results # <<>>

\* C22: a call on an available backend whose index query answered with no
\* document returned an empty sequence, and the fallback matcher was not
\* asked.
C22_EmptyAnswerReturnsEmpty ==
    call.active /\ call.path = "similarity" /\ call.queries[1].answer = <<>> =>
        /\ ~call.out.raised
        /\ Results = <<>>
        /\ call.fallback = NoOutcome

\* The index answered with no document and the call returned nothing
\* although the fallback matcher has Results for the same arguments.
C22_Witness ==
    /\ call.active /\ call.path = "similarity"
    /\ call.queries[1].answer = <<>>
    /\ Results = <<>>
    /\ _fallback_search(rows, call.query, call.k, call.module, call.tags,
                        FALSE, {}).results # <<>>

\* C25 as stated: no excerpt of a Result is longer than excerpt_len.
C25_ExcerptWithinLen ==
    call.active =>
        \A i \in 1..Len(Results) : StrLen(Results[i].excerpt) <= excerpt_len

\* The last three characters of a string are "...".
EndsWithEllipsis(s) ==
    s # <<>> /\ s[Len(s)].c = "." /\ s[Len(s)].n >= 3

\* C25 amended: an excerpt is at most excerpt_len characters of text followed
\* by "...", excerpt_len + 3 characters in all, when the text is longer than
\* excerpt_len, and the whole text otherwise; on the fallback path the text
\* is the content of the document's file.
C25_ExcerptWithEllipsis ==
    call.active =>
        \A i \in 1..Len(Results) :
            LET x == Results[i].excerpt
            IN  /\ StrLen(x) <= excerpt_len + 3
                /\ StrLen(x) > excerpt_len =>
                       StrLen(x) = excerpt_len + 3 /\ EndsWithEllipsis(x)
                /\ call.path # "similarity" =>
                       LET text == Files[Results[i].path]
                       IN  x = IF StrLen(text) <= excerpt_len THEN text
                               ELSE Prefix(text, excerpt_len) \o Ellipsis

\* A Result carried an excerpt of excerpt_len + 3 characters.
C25_Witness ==
    /\ call.active
    /\ \E i \in 1..Len(Results) : StrLen(Results[i].excerpt) = excerpt_len + 3

\* C26: the fields of a constructed tool object are all set or all None.
C26_AllOrNothing ==
    \A t \in Objects :
        tool[t].built =>
            \/ tool[t].fields = AllNone
            \/ tool[t].fields = Fields(TRUE, TRUE, TRUE)

\* The last construction set the model, the client and the collection, its
\* load raised, and the object it built has all three fields None.
C26_Witness ==
    /\ HAS_VECTOR_DEPS
    /\ build.tool # "" /\ build.count # ""
    /\ tool[build.tool].fields = AllNone

\* C27: a step that starts a search call or takes its result changes no
\* collection, not the catalogue and no field of a tool object; a step that
\* changes a collection is a construction.
C27_SearchReadOnly ==
    [][/\ call' # call => store' = store /\ rows' = rows /\ tool' = tool
       /\ store' # store =>
              /\ call' = call /\ ~call.active
              /\ tool'[build'.tool].built
              /\ \A c \in CollectionNames :
                     store'[c] # store[c] => c = CollectionName(build'.tool)]_vars

\* The similarity path of a call raised on a collection that holds entries,
\* the fallback matcher returned Results, and the collection still holds the
\* entries.
C27_Witness ==
    /\ call.active /\ call.path = "failover"
    /\ Results # <<>>
    /\ MainColl # {}

\* C29: when the catalogue query of the load raised in a construction (model,
\* client and collection had been set by then), the object that construction
\* made has model, client and collection None; a search call on that object
\* is served by the fallback matcher.
C29_LoadFailureDisables ==
    build.tool # "" /\ build.load = "raised" =>
        /\ tool[build.tool].fields = AllNone
        /\ (call.active /\ call.tool = build.tool => call.path = "fallback")

\* The catalogue query raised in the load of a construction on an empty
\* collection, and a search call on the object was served by the fallback
\* matcher.
C29_Witness ==
    /\ build.load = "raised"
    /\ build.count = "ok"
    /\ build.before = 0
    /\ call.active
    /\ call.tool = build.tool
    /\ call.path = "fallback"
    /\ Results # <<>>

\* The documents of the catalogue that the claim calls candidates of the
\* call: they pass the module and the tags filter, their content is readable
\* and not empty, and their Jaccard score with the query is above zero.
PassesFilters(row) ==
    /\ Truthy(call.module) => row.module = call.module
    /\ Truthy(call.tags) =>
           \A tg \in TagSet(call.tags) : tg \in TagSet(OrEmpty(row.tags))

ReadableContent(row) ==
    IF row.path \in DOMAIN Files /\ row.path \notin call.unreadable
    THEN Files[row.path] ELSE Empty

Jaccard(row) ==
    LET q == WordSet(call.query)
        d == WordSet(ReadableContent(row))
    IN  Score(Cardinality(q \cap d), Cardinality(q \cup d))

Candidates ==
    {j \in 1..Len(rows) :
        /\ PassesFilters(rows[j])
        /\ ReadableContent(rows[j]) # Empty
        /\ Jaccard(rows[j]).num > 0}

\* The rows whose documents the call returned.
ReturnedRows == {j \in 1..Len(rows) : \E i \in 1..Len(Results) : Results[i].id = rows[j].id}

\* C21: a call of the fallback matcher that returns gives min(k, number of
\* candidates) Results, each of them a different candidate with its Jaccard
\* score, in descending order of score, and no candidate that was left out
\* scores higher than a returned one; a document without word overlap is
\* never returned.
C21_FallbackTopK ==
    call.active /\ call.path = "fallback" /\ ~call.out.raised =>
        /\ Len(Results) = Min(call.k, Cardinality(Candidates))
        /\ Cardinality(ReturnedRows) = Len(Results)
        /\ ReturnedRows \subseteq Candidates
        /\ \A i \in 1..Len(Results) : \A j \in 1..Len(rows) :
               rows[j].id = Results[i].id =>
                   /\ Results[i].score.num * Jaccard(rows[j]).den
                        = Jaccard(rows[j]).num * Results[i].score.den
                   /\ Results[i].score.num > 0
        /\ \A i \in 1..Len(Results) : \A h \in 1..Len(Results) :
               i < h => ~ScoreGreater(Results[h].score, Results[i].score)
        /\ \A j \in Candidates \ ReturnedRows : \A i \in 1..Len(Results) :
               ~ScoreGreater(Jaccard(rows[j]), Results[i].score)

\* A call with k above one returned k Results and left out a candidate that
\* stands earlier in the catalogue than a returned document and scores lower
\* than every returned one.
C21_Witness ==
    /\ call.active
    /\ call.path = "fallback"
    /\ call.k > 1
    /\ Len(Results) = call.k
    /\ \E j \in Candidates \ ReturnedRows :
           /\ \E h \in ReturnedRows : j < h
           /\ \A i \in 1..Len(Results) :
                  ScoreGreater(Results[i].score, Jaccard(rows[j]))

\* The consecutive groups of batch_size of the chunks of a build, chunks
\* being the chunks in the order the build collects them.
BatchCount(chunks) == (Len(chunks) + batch_size - 1) \div batch_size

BatchChunks(chunks, b) ==
    {chunks[i] : i \in {j \in 1..Len(chunks) :
                            (b - 1) * batch_size < j /\ j <= b * batch_size}}

WrittenChunks(chunks) ==
    UNION {BatchChunks(chunks, b) : b \in (1..BatchCount(chunks)) \ build.failed}

\* C23: a build whose load ran calls collection.add once for every group of
\* batch_size consecutive chunks, whichever of the calls raise; it does not
\* raise itself (model, client and collection stay set); and the collection
\* then holds what it held before and the chunks of the batches whose add
\* did not raise, and no other entry.
C23_FailedBatchSkipped ==
    build.tool # "" /\ build.load = "ran" =>
        \A chunks \in {AllEntries(rows, build.unreadable)} :
            /\ build.adds = BatchCount(chunks)
            /\ build.failed \subseteq 1..BatchCount(chunks)
            /\ \A b \in 1..BatchCount(chunks) :
                   Cardinality(BatchChunks(chunks, b)) <= batch_size
            /\ tool[build.tool].fields = Fields(TRUE, TRUE, TRUE)
            /\ MainColl = build.found \cup WrittenChunks(chunks)

\* On an empty collection the add of a batch raised, a later batch was
\* written, and the collection holds some but not all chunks.
C23_Witness ==
    /\ build.load = "ran"
    /\ build.found = {}
    /\ \E b \in build.failed :
           \E later \in (1..build.adds) \ build.failed : later > b
    /\ MainColl # {}
    /\ Cardinality(MainColl) < Cardinality(build.submitted)

\* A row of the catalogue that has no path, whose path is no file, whose
\* file failed to open during the build, or whose content is blank.
Skipped(row) ==
    \/ row.path = ""
    \/ row.path \notin DOMAIN Files
    \/ row.path \in build.unreadable
    \/ ~HasNonSpace(Files[row.path])

\* The keys f"{doc_id}_{i}" of the chunks of a row's document.
ChunkKeys(row) ==
    {<<row.id, i - 1>> : i \in 1..Len(_split_document(Files[row.path]))}

\* C24: in a build whose load ran, a row without a path, with a path that is
\* no file, with a file that fails to open or with blank content has no
\* chunk among the keys passed to collection.add, every chunk of every other
\* row is among them, and the build does not raise.
C24_BadDocumentSkipped ==
    build.tool # "" /\ build.load = "ran" =>
        /\ \A j \in 1..Len(rows) :
               IF Skipped(rows[j])
               THEN \A key \in build.submitted : key[1] # rows[j].id
               ELSE /\ ChunkKeys(rows[j]) # {}
                    /\ ChunkKeys(rows[j]) \subseteq build.submitted
        /\ tool[build.tool].fields = Fields(TRUE, TRUE, TRUE)

\* A build met a row of each of the four kinds and passed the chunks of a
\* row behind them to collection.add.
C24_Witness ==
    /\ build.load = "ran"
    /\ \E j \in 1..Len(rows) : rows[j].path = ""
    /\ \E j \in 1..Len(rows) : rows[j].path # "" /\ rows[j].path \notin DOMAIN Files
    /\ \E j \in 1..Len(rows) : rows[j].path \in build.unreadable
    /\ \E j \in 1..Len(rows) :
           /\ rows[j].path \in DOMAIN Files \ build.unreadable
           /\ ~HasNonSpace(Files[rows[j].path])
    /\ \E key \in build.submitted : key[1] = rows[Len(rows)].id

\* C28: a construction that finds some but not all chunks of the catalogue in
\* the collection skips the load and leaves the collection as it found it.
C28_PartialBuildPermanent ==
    /\ build.tool # ""
    /\ build.found # {}
    /\ \E chunks \in {AllEntries(rows, {})} :
           \E i \in 1..Len(chunks) : chunks[i] \notin build.found
    => /\ build.load = "skipped"
       /\ MainColl = build.found

\* Both constructions saw a count of zero and both passed the same keys,
\* at least one, to collection.add.
BothSubmitted ==
    /\ \A t \in Retrievers :
           /\ build[t].pc = "done"
           /\ build[t].count = "ok"
           /\ build[t].saw = 0
           /\ build[t].submitted # {}
    /\ \A t \in Retrievers : \A o \in Retrievers :
           build[t].submitted = build[o].submitted

\* C30 (constructions one after the other): a construction that starts
\* after another one on the same collection has ended with at least one
\* batch written passes no key to collection.add.
C30_SecondSubmitsNone ==
    \A t \in Retrievers : \A o \in build[t].behind :
        build[t].pc = "done" /\ build[o].wrote => build[t].submitted = {}

=============================================================================
